---- MODULE Spec2Model ----
(***************************************************************************)
(* pysellus/registrar.py: the registration of testers against streams and  *)
(* the failure wrapper that turns a failing or raising tester into a       *)
(* notification.                                                           *)
(*                                                                         *)
(* Python objects are modelled by value: a callable is a record            *)
(* [func, args] (a plain function has args = <<>>, functools.partial keeps  *)
(* the wrapped function's name and the bound arguments), a dict is a        *)
(* function whose DOMAIN is the set of keys, a list or tuple is a sequence. *)
(***************************************************************************)
EXTENDS Naturals, Sequences, FiniteSets, TLC

---------------------------------------------------------------------------
(* Bounds of the model *)

MaxWrappers == 2      \* wrapped testers held by stream_to_testers, all streams
MaxFed == 2           \* elements emitted, all streams
MaxDecls == 2         \* length of the function_list given to register
MaxTesters == 2       \* testers given to one registrar call of Attach

---------------------------------------------------------------------------
(* Python values *)

None == [t |-> "NoneType", v |-> 0]
PyBool(b) == [t |-> "bool", v |-> IF b THEN 1 ELSE 0]
PyInt(n) == [t |-> "int", v |-> n]

\* bool(x), as `not x` computes it for None, bool and int
Truthy(x) == x.t # "NoneType" /\ x.v # 0

\* classes deriving from Exception; SystemExit and KeyboardInterrupt derive
\* from BaseException only
ExceptionSubclasses == {"ValueError", "KeyError"}
IsInstanceOfException(e) == e \in ExceptionSubclasses

Return(x) == [kind |-> "return", value |-> x, exc |-> "None"]
Raise(e) == [kind |-> "raise", value |-> None, exc |-> e]

---------------------------------------------------------------------------
(* The environment: streams, elements, testers, the functions calling expect *)

Streams == {"s1", "s2"}
Elements == {0, 1}

Function(name) == [func |-> name, args |-> <<>>]

\* the predicates a user hands to a registrar
Testers == {Function("is_zero"), Function("fails"), Function("exits")}

\* tester(element) for a plain function
CallTester(tester, element) ==
    CASE tester.func = "is_zero" -> Return(PyBool(element = 0))
      [] tester.func = "fails" ->
            IF element = 0 THEN Raise("ValueError") ELSE Return(PyInt(element))
      [] tester.func = "exits" ->
            IF element = 0 THEN Raise("SystemExit") ELSE Return(None)
      [] OTHER -> Raise("TypeError")

\* tester.__name__
__name__(tester) == tester.func

\* functools.partial(func, a, b)
partial(func, a, b) == [func |-> func, args |-> <<a, b>>]

\* names under which an integration may be registered, and their descriptions
IntegrationNames == {"pscheck_a", "pscheck_b"}
Description(name) ==
    CASE name = "pscheck_a" -> "A holds"
      [] OTHER -> "B holds"

\* a frame record of inspect.stack(): (frame, filename, lineno, function,
\* code_context, index)
FrameRecord(function) == <<"frame", "file.py", 0, function, <<>>, 0>>

RECURSIVE Frames(_)
Frames(names) ==
    IF names = <<>> THEN <<>>
    ELSE <<FrameRecord(Head(names))>> \o Frames(Tail(names))

\* the declaration functions given to register: each is a sequence of
\* statements `expect(stream)(*testers)`, written directly in the declaration
\* (via = <<>>) or in a helper the declaration calls (via = <<"helper">>)
DeclarationNames == {"pscheck_a", "pscheck_b"}
DeclarationBody(fn) ==
    CASE fn = "pscheck_a" ->
            << [via |-> <<>>, stream |-> "s1",
                testers |-> <<Function("is_zero")>>] >>
      [] OTHER ->
            << [via |-> <<>>, stream |-> "s1",
                testers |-> <<Function("exits")>>],
               [via |-> <<"helper">>, stream |-> "s2", testers |-> <<>>] >>

---------------------------------------------------------------------------
(* registrar.py *)

VARIABLES
    stream_to_testers,        \* registrar.py:6, the module-level dict
    registered_integrations,  \* integrations.registered_integrations
    lastRegister,  \* <<r>>: arguments, calls and result of the last register call
    delivery,      \* <<d>>: the element the runtime is delivering, and position
    last,          \* <<r>>: the most recent call of a stored callable
    registered,    \* history: per stream, the (caller of expect, tester) registered
    fed,           \* history: per stream, the elements emitted
    hits,          \* history: per stream and table position, the calls made
    seen,          \* history: per stream and position, fed[stream] when registered
    triggered      \* history: the callables called for the current element

vars == <<stream_to_testers, registered_integrations, lastRegister,
          delivery, last, registered, fed, hits, seen, triggered>>

\* the list of the stream replaced by a list of the tester
_register_tester_for_stream_overwrites(table, stream, tester) ==
    [s \in DOMAIN table \cup {stream} |->
        IF s = stream THEN <<tester>> ELSE table[s]]

\* the tester put at the front of the list
_register_tester_for_stream_prepends(table, stream, tester) ==
    IF stream \in DOMAIN table
    THEN [table EXCEPT ![stream] = <<tester>> \o @]
    ELSE [s \in DOMAIN table \cup {stream} |->
             IF s = stream THEN <<tester>> ELSE table[s]]

\* a new stream replaces the dict
_register_tester_for_stream_resets(table, stream, tester) ==
    IF stream \in DOMAIN table
    THEN [table EXCEPT ![stream] = Append(@, tester)]
    ELSE [s \in {stream} |-> <<tester>>]

\* registrar.py:129-141
_register_tester_for_stream(table, stream, tester) ==
    IF stream \in DOMAIN table
    THEN [table EXCEPT ![stream] = Append(@, tester)]
    ELSE [s \in DOMAIN table \cup {stream} |->
             IF s = stream THEN <<tester>> ELSE table[s]]

\* the tester registered as it is
RECURSIVE tests_registrar_unwrapped(_, _, _, _)
tests_registrar_unwrapped(table, stream, test_name, testers) ==
    IF testers = <<>> THEN table
    ELSE tests_registrar_unwrapped(
             _register_tester_for_stream(table, stream, Head(testers)),
             stream, test_name, Tail(testers))

\* registrar.py:26-44, the closure over stream and test_name
RECURSIVE tests_registrar(_, _, _, _)
tests_registrar(table, stream, test_name, testers) ==
    IF testers = <<>> THEN table
    ELSE tests_registrar(
             _register_tester_for_stream(
                 table, stream,
                 partial("_on_failure_wrapper", test_name, Head(testers))),
             stream, test_name, Tail(testers))

\* registrar.py:104-110
distance_to_setup_function == (1 + 1 + 1) - 1

\* the frame above the caller of expect
_get_name_of_expect_caller_outer(stack) ==
    stack[distance_to_setup_function + 2][3 + 1]

\* registrar.py:79-112; stack is inspect.stack() seen from inside this
\* function, 0-indexed in the source
_get_name_of_expect_caller(stack) == stack[distance_to_setup_function + 1][3 + 1]

\* registrar.py:15-46; callerStack are the frames of the caller of expect,
\* innermost first. The result is the closure tests_registrar.
expect(callerStack, stream) ==
    LET test_name == _get_name_of_expect_caller(
                         Frames(<<"_get_name_of_expect_caller", "expect">>)
                             \o callerStack)
    IN [func |-> "tests_registrar", stream |-> stream, test_name |-> test_name]

\* the first two arguments exchanged
_make_message_payload_swapped(test_name, tester_name, element) ==
    [test_name |-> tester_name, expect_function |-> test_name,
     element |-> element]

\* registrar.py:115-126
_make_message_payload(test_name, tester_name, element) ==
    [test_name |-> test_name, expect_function |-> tester_name,
     element |-> element]

\* integrations.notify_element / notify_error: the call is recorded
notify_element(test_name, payload) ==
    [entry |-> "notify_element", test_name |-> test_name, payload |-> payload]
notify_error(test_name, payload) ==
    [entry |-> "notify_error", test_name |-> test_name, payload |-> payload]

\* the assignment of line 75 left out
SetError_omitted(payload, e) == payload

\* payload_message['error'] = e (registrar.py:75)
SetError(payload, e) == ("error" :> e) @@ payload

\* The result of a wrapper call records whether the tester was called and
\* with what outcome, the notifications sent, and the exception (if any)
\* that leaves the wrapper.

\* `if tester(element)`: the test of line 67 without its `not`
TryTester_notifies_match(test_name, tester, element, payload_message) ==
    LET outcome == CallTester(tester, element)
    IN  IF outcome.kind = "return"
        THEN [called |-> TRUE, outcome |-> outcome,
              notified |-> IF Truthy(outcome.value)
                           THEN <<notify_element(test_name, payload_message)>>
                           ELSE <<>>,
              escaped |-> "None"]
        ELSE IF IsInstanceOfException(outcome.exc)
        THEN [called |-> TRUE, outcome |-> outcome,
              notified |-> <<notify_error(
                               test_name,
                               SetError(payload_message, outcome.exc))>>,
              escaped |-> "None"]
        ELSE [called |-> TRUE, outcome |-> outcome,
              notified |-> <<>>, escaped |-> outcome.exc]

\* registrar.py:66-76, the try statement
TryTester(test_name, tester, element, payload_message) ==
    LET outcome == CallTester(tester, element)
    IN  IF outcome.kind = "return"
        THEN \* lines 67-68
             [called |-> TRUE, outcome |-> outcome,
              notified |-> IF ~Truthy(outcome.value)
                           THEN <<notify_element(test_name, payload_message)>>
                           ELSE <<>>,
              escaped |-> "None"]
        ELSE IF IsInstanceOfException(outcome.exc)
        THEN \* lines 69-76, `except Exception as e`
             [called |-> TRUE, outcome |-> outcome,
              notified |-> <<notify_error(
                               test_name,
                               SetError(payload_message, outcome.exc))>>,
              escaped |-> "None"]
        ELSE \* not an instance of Exception: the except clause does not match
             [called |-> TRUE, outcome |-> outcome,
              notified |-> <<>>, escaped |-> outcome.exc]

\* the lookup of line 62 moved under the try statement
_on_failure_wrapper_guards_lookup(registry, test_name, tester, element) ==
    IF test_name \notin DOMAIN registry
    THEN [called |-> FALSE, outcome |-> Return(None),
          notified |-> <<notify_error(test_name, [error |-> "KeyError"])>>,
          escaped |-> "None"]
    ELSE TryTester(test_name, tester, element,
                   _make_message_payload(registry[test_name].test_description,
                                         __name__(tester), element))

\* registrar.py:49-76
_on_failure_wrapper(registry, test_name, tester, element) ==
    IF test_name \notin DOMAIN registry
    THEN \* line 62: registered_integrations[test_name] raises KeyError,
         \* outside the try statement
         [called |-> FALSE, outcome |-> Return(None),
          notified |-> <<>>, escaped |-> "KeyError"]
    ELSE TryTester(test_name, tester, element,
                   _make_message_payload(registry[test_name].test_description,
                                         __name__(tester), element))

\* callable(element) for an entry of stream_to_testers
Call(registry, callable, element) ==
    IF callable.func = "_on_failure_wrapper" /\ Len(callable.args) = 2
    THEN _on_failure_wrapper(registry, callable.args[1], callable.args[2], element)
    ELSE LET outcome == CallTester(callable, element)
         IN  [called |-> TRUE, outcome |-> outcome, notified |-> <<>>,
              escaped |-> outcome.exc]

---------------------------------------------------------------------------
(* Calls of the registration API.  st = [table, registered]: the dict and   *)
(* the history of the testers given to registrars.                         *)

\* history entries for the testers given to a registrar: the function that
\* called expect, the registrar's correlation name, the tester
RECURSIVE Tagged(_, _)
Tagged(registrar, testers) ==
    IF testers = <<>> THEN <<>>
    ELSE <<[caller |-> registrar.caller, test_name |-> registrar.test_name,
            tester |-> Head(testers)]>>
             \o Tagged(registrar, Tail(testers))

\* registrar(*testers) for a closure returned by expect
CallRegistrar(st, registrar, testers) ==
    [table |-> tests_registrar(st.table, registrar.stream,
                               registrar.test_name, testers),
     registered |-> [st.registered EXCEPT ![registrar.stream] =
                        @ \o Tagged(registrar, testers)]]

\* expect(stream) called from the function whose frames are callerStack; the
\* history keeps the name of the function that made the call
ExpectFrom(callerStack, stream) ==
    [caller |-> callerStack[1][3 + 1]] @@ expect(callerStack, stream)

\* fn(): the statements of a declaration, run below register
RECURSIVE RunBody(_, _, _)
RunBody(st, fn, body) ==
    IF body = <<>> THEN st
    ELSE RunBody(
             CallRegistrar(
                 st,
                 ExpectFrom(Frames(Head(body).via \o <<fn, "register", "<module>">>),
                            Head(body).stream),
                 Head(body).testers),
             fn, Tail(body))

\* the loop left after its first iteration
CallEach_first_only(run, function_list) ==
    IF function_list = <<>> THEN run
    ELSE [st |-> RunBody(run.st, Head(function_list),
                         DeclarationBody(Head(function_list))),
          invoked |-> Append(run.invoked, Head(function_list))]

\* registrar.py:10-11, `for fn in function_list: fn()`
RECURSIVE CallEach(_, _)
CallEach(run, function_list) ==
    IF function_list = <<>> THEN run
    ELSE CallEach(
             [st |-> RunBody(run.st, Head(function_list),
                             DeclarationBody(Head(function_list))),
              invoked |-> Append(run.invoked, Head(function_list))],
             Tail(function_list))

\* registrar.py:9-12; the result is a reference to the module-level dict
register(st, function_list) ==
    LET run == CallEach([st |-> st, invoked |-> <<>>], function_list)
    IN  [st |-> run.st, invoked |-> run.invoked,
         result |-> [ref |-> "stream_to_testers", value |-> <<>>]]

\* the dict a reference denotes
Deref(r) == IF r.ref = "stream_to_testers" THEN stream_to_testers ELSE r.value

---------------------------------------------------------------------------
(* History bookkeeping *)

\* stream_to_testers.get(stream, [])
TableAt(table, stream) ==
    IF stream \in DOMAIN table THEN table[stream] ELSE <<>>

\* the number of callables the dict holds
TableSize(table) == Len(TableAt(table, "s1")) + Len(TableAt(table, "s2"))

RECURSIVE Zeros(_)
Zeros(n) == IF n = 0 THEN <<>> ELSE <<0>> \o Zeros(n - 1)

RECURSIVE Copies(_, _)
Copies(n, x) == IF n = 0 THEN <<>> ELSE <<x>> \o Copies(n - 1, x)

TotalFed == fed["s1"] + fed["s2"]

---------------------------------------------------------------------------
(* The state machine *)

Init ==
    /\ stream_to_testers = <<>>
    /\ registered_integrations =
           [n \in IntegrationNames |-> [test_description |-> Description(n)]]
    /\ lastRegister = <<>>
    /\ delivery = <<>>
    /\ last = <<>>
    /\ registered = [s \in Streams |-> <<>>]
    /\ fed = [s \in Streams |-> 0]
    /\ hits = [s \in Streams |-> <<>>]
    /\ seen = [s \in Streams |-> <<>>]
    /\ triggered = <<>>

\* the dict and the history become st
Registered(st) ==
    /\ TableSize(st.table) <= MaxWrappers
    /\ stream_to_testers' = st.table
    /\ registered' = st.registered
    /\ hits' = [s \in Streams |->
                   hits[s] \o Zeros(Len(st.registered[s]) - Len(registered[s]))]
    /\ seen' = [s \in Streams |->
                   seen[s] \o Copies(Len(st.registered[s]) - Len(registered[s]),
                                     fed[s])]

\* register(function_list), called from the module level
Register ==
    \E n \in 0..MaxDecls :
        /\ delivery = <<>>
        \* every declaration registers a tester at least
        /\ TableSize(stream_to_testers) + n <= MaxWrappers
        /\ \E function_list \in [1..n -> DeclarationNames] :
               LET r == register([table |-> stream_to_testers,
                                  registered |-> registered],
                                 function_list)
               IN  /\ Registered(r.st)
                   /\ lastRegister' = <<[function_list |-> function_list,
                                         invoked |-> r.invoked,
                                         result |-> r.result]>>
        /\ UNCHANGED <<registered_integrations, delivery, last, fed, triggered>>

\* a function called from the module level, whose body is
\*     registrar = expect(stream); registrar(*first); registrar(*second)
\* written in the function itself or in a helper the function calls
Attach ==
    \E fn \in {"pscheck_a"}, via \in {<<>>, <<"helper">>}, stream \in Streams,
       n \in 0..MaxTesters, m \in 0..MaxTesters :
        /\ delivery = <<>>
        /\ TableSize(stream_to_testers) + n + m <= MaxWrappers
        /\ \E first \in [1..n -> Testers], second \in [1..m -> Testers] :
               LET registrar ==
                       ExpectFrom(Frames(via \o <<fn, "<module>">>), stream)
                   st == [table |-> stream_to_testers,
                          registered |-> registered]
               IN  Registered(CallRegistrar(CallRegistrar(st, registrar, first),
                                            registrar, second))
        /\ UNCHANGED <<registered_integrations, lastRegister, delivery, last,
                       fed, triggered>>

\* the runtime starts to deliver an element of a stream it subscribed
Emit ==
    \E stream \in DOMAIN stream_to_testers, element \in Elements :
        /\ delivery = <<>>
        /\ TotalFed < MaxFed
        /\ delivery' = <<[stream |-> stream, element |-> element, pos |-> 1]>>
        /\ fed' = [fed EXCEPT ![stream] = @ + 1]
        /\ triggered' = <<>>
        /\ last' = <<>>
        /\ UNCHANGED <<stream_to_testers, registered_integrations,
                       lastRegister, registered, hits, seen>>

\* the runtime gives the element to the next callable of the stream
Deliver ==
    /\ delivery # <<>>
    /\ LET d == delivery[1]
           callable == stream_to_testers[d.stream][d.pos]
           r == Call(registered_integrations, callable, d.element)
       IN  /\ last' = <<[stream |-> d.stream, callable |-> callable,
                          element |-> d.element, called |-> r.called,
                          outcome |-> r.outcome, notified |-> r.notified,
                          escaped |-> r.escaped]>>
           /\ triggered' = Append(triggered, callable)
           /\ hits' = [hits EXCEPT ![d.stream] =
                          IF d.pos <= Len(@) THEN [@ EXCEPT ![d.pos] = @ + 1]
                          ELSE @]
           /\ delivery' = IF d.pos < Len(stream_to_testers[d.stream])
                          THEN <<[d EXCEPT !.pos = @ + 1]>>
                          ELSE <<>>
    /\ UNCHANGED <<stream_to_testers, registered_integrations,
                   lastRegister, registered, fed, seen>>

Next == Register \/ Attach \/ Emit \/ Deliver

Spec == Init /\ [][Next]_vars

---------------------------------------------------------------------------
(* Properties *)

IsWrapper(callable) ==
    callable.func = "_on_failure_wrapper" /\ Len(callable.args) = 2

IsPrefix(p, q) == Len(p) <= Len(q) /\ SubSeq(q, 1, Len(p)) = p

\* the last call was the call of a wrapper whose tester was called
TesterWasCalled == last # <<>> /\ IsWrapper(last[1].callable) /\ last[1].called

LastName == last[1].callable.args[1]
LastTester == last[1].callable.args[2]

\* notify_error was called once, with the correlation name and the payload
\* of the call extended by the raised exception, and nothing escaped
RaiseWasNotified ==
    /\ last[1].escaped = "None"
    /\ Len(last[1].notified) = 1
    /\ last[1].notified[1].entry = "notify_error"
    /\ last[1].notified[1].test_name = LastName
    /\ DOMAIN last[1].notified[1].payload =
           {"test_name", "expect_function", "element", "error"}
    /\ last[1].notified[1].payload["error"] = last[1].outcome.exc
    /\ last[1].notified[1].payload["test_name"] =
           registered_integrations[LastName].test_description
    /\ last[1].notified[1].payload["expect_function"] = LastTester.func
    /\ last[1].notified[1].payload["element"] = last[1].element

\* C1 as stated: whenever the tester of a wrapper raises, notify_error is
\* called exactly once with the correlation name and the payload carrying
\* the raised exception under 'error', and nothing escapes the wrapper.
C1_AnyRaiseIsNotified ==
    (TesterWasCalled /\ last[1].outcome.kind = "raise") => RaiseWasNotified

\* C1 amended: whenever the tester of a wrapper raises an instance of
\* Exception, notify_error is called exactly once with the correlation name
\* and the payload carrying the raised exception under 'error', and nothing
\* escapes the wrapper.
C1_ExceptionIsNotified ==
    (TesterWasCalled /\ last[1].outcome.kind = "raise"
         /\ IsInstanceOfException(last[1].outcome.exc)) => RaiseWasNotified

C1_Witness ==
    /\ TesterWasCalled
    /\ last[1].outcome = Raise("ValueError")
    /\ Len(last[1].notified) = 1

\* C2: whenever the tester of a wrapper returns a false value without
\* raising, notify_element is called exactly once, its payload holds the
\* tester's name under 'expect_function' and the element under 'element',
\* and notify_error is not called.
C2_FalseIsNotifiedAsElement ==
    (TesterWasCalled /\ last[1].outcome.kind = "return"
         /\ ~Truthy(last[1].outcome.value)) =>
        /\ Len(last[1].notified) = 1
        /\ last[1].notified[1].entry = "notify_element"
        /\ last[1].notified[1].payload.expect_function = LastTester.func
        /\ last[1].notified[1].payload.element = last[1].element
        /\ \A i \in 1..Len(last[1].notified) :
               last[1].notified[i].entry # "notify_error"

C2_Witness ==
    /\ TesterWasCalled
    /\ last[1].outcome = Return(PyBool(FALSE))
    /\ Len(last[1].notified) = 1
    /\ last[1].notified[1].entry = "notify_element"

\* C3: register calls every callable of function_list once, in list order,
\* and returns the module-level stream_to_testers itself.
C3_RegisterCallsEachOnce ==
    lastRegister # <<>> =>
        /\ lastRegister[1].invoked = lastRegister[1].function_list
        /\ lastRegister[1].result.ref = "stream_to_testers"
        /\ Deref(lastRegister[1].result) = stream_to_testers

C3_Witness ==
    /\ lastRegister # <<>>
    /\ lastRegister[1].function_list = <<"pscheck_b", "pscheck_a">>
    /\ TableAt(stream_to_testers, "s1") # <<>>

\* the testers of the callables of a sequence of wrappers
RECURSIVE WrappedTesters(_)
WrappedTesters(wrappers) ==
    IF wrappers = <<>> THEN <<>>
    ELSE <<Head(wrappers).args>> \o WrappedTesters(Tail(wrappers))

RECURSIVE GivenTesters(_)
GivenTesters(entries) ==
    IF entries = <<>> THEN <<>>
    ELSE <<<<Head(entries).test_name, Head(entries).tester>>>>
             \o GivenTesters(Tail(entries))

\* C4: a group of testers registered against a stream is added after what
\* the stream already holds: the earlier wrappers stay, in place, and the
\* wrappers of the new group follow them in the order given.
C4_GroupsAccumulate ==
    [][\A s \in Streams :
           registered'[s] # registered[s] =>
               /\ IsPrefix(TableAt(stream_to_testers, s),
                           TableAt(stream_to_testers', s))
               /\ WrappedTesters(SubSeq(TableAt(stream_to_testers', s),
                                        Len(TableAt(stream_to_testers, s)) + 1,
                                        Len(TableAt(stream_to_testers', s))))
                      = GivenTesters(SubSeq(registered'[s],
                                            Len(registered[s]) + 1,
                                            Len(registered'[s])))]_vars

\* two groups with different correlation names on the same stream
C4_Witness ==
    /\ "s1" \in DOMAIN stream_to_testers
    /\ Len(stream_to_testers["s1"]) = 2
    /\ stream_to_testers["s1"][1].args[1] # stream_to_testers["s1"][2].args[1]

C6_TableOnlyGrows ==
    [][\A s \in DOMAIN stream_to_testers :
           /\ s \in DOMAIN stream_to_testers'
           /\ IsPrefix(stream_to_testers[s], stream_to_testers'[s])]_vars

\* both streams hold testers, and wrappers were called
C6_Witness ==
    /\ DOMAIN stream_to_testers = Streams
    /\ last # <<>>

\* C7: stream_to_testers holds, for every stream, exactly one entry per tester
\* given to a registrar of the stream, and that entry is the partial
\* application of _on_failure_wrapper to the registrar's correlation name and
\* to the tester itself.
C7_EachTesterWrappedOnce ==
    \A s \in Streams :
        /\ Len(TableAt(stream_to_testers, s)) = Len(registered[s])
        /\ \A i \in 1..Len(TableAt(stream_to_testers, s)) :
               LET entry == stream_to_testers[s][i]
               IN  /\ IsWrapper(entry)
                   /\ entry.args[2] \in Testers
                   /\ i <= Len(registered[s])
                   /\ entry.args[2] = registered[s][i].tester
                   /\ entry.args[1] = registered[s][i].test_name

C7_Witness ==
    /\ "s2" \in DOMAIN stream_to_testers
    /\ Len(stream_to_testers["s2"]) = 2
    /\ stream_to_testers["s2"][1] = stream_to_testers["s2"][2]

\* C8: the correlation name of a registrar, and of every wrapper it made, is
\* the name of the function whose frame called expect.
C8_NameIsDirectCaller ==
    \A s \in DOMAIN stream_to_testers :
        \A i \in 1..Len(stream_to_testers[s]) :
            /\ i <= Len(registered[s])
            /\ IsWrapper(stream_to_testers[s][i])
            /\ stream_to_testers[s][i].args[1] = registered[s][i].caller

\* a wrapper of a registrar made in a helper, and a wrapper made below
\* register
C8_Witness ==
    /\ "s1" \in DOMAIN stream_to_testers
    /\ Len(stream_to_testers["s1"]) = 2
    /\ stream_to_testers["s1"][1].args[1] = "helper"
    /\ stream_to_testers["s1"][2].args[1] = "pscheck_b"

\* C9: a wrapper whose correlation name is not a key of
\* registered_integrations lets the KeyError of the lookup escape and calls
\* neither notify_element nor notify_error.
C9_LookupFailurePropagates ==
    (last # <<>> /\ IsWrapper(last[1].callable)
         /\ LastName \notin DOMAIN registered_integrations) =>
        /\ last[1].escaped = "KeyError"
        /\ last[1].notified = <<>>

C9_Witness ==
    /\ last # <<>>
    /\ IsWrapper(last[1].callable)
    /\ LastName = "helper"
    /\ last[1].escaped = "KeyError"

\* C10: the call of a wrapper whose tester returns a true value sends no
\* notification, lets nothing escape and leaves stream_to_testers as it was.
C10_TrueIsSilent ==
    [][(triggered' # triggered /\ last' # <<>> /\ IsWrapper(last'[1].callable)
            /\ last'[1].called /\ last'[1].outcome.kind = "return"
            /\ Truthy(last'[1].outcome.value)) =>
           /\ last'[1].notified = <<>>
           /\ last'[1].escaped = "None"
           /\ stream_to_testers' = stream_to_testers]_vars

C10_Witness ==
    /\ TesterWasCalled
    /\ last[1].outcome = Return(PyInt(1))
    /\ last[1].notified = <<>>

====
